---- MODULE Spec2Model ----
(***************************************************************************)
(* Model of the topo-planner mesh planner: the constrained maximum-weight  *)
(* tree builder (TopologyGenerator), the per-level channel assigner        *)
(* (ChannelAssigner) and the planner facade (api.generate_topology).       *)
(*                                                                         *)
(* Node ids are the strings "SN0", "SN1", ...; Python's None is the string *)
(* "None".  Weights are kept as twice their value, so that LOAD_WEIGHT 0.5 *)
(* stays an integer; loads are integers.                                   *)
(***************************************************************************)
EXTENDS Integers, Sequences, FiniteSets, TLC

(* Largest number of nodes of an input. *)
MaxNodes == 3

(* Largest number of nodes of a request to generate_topology. *)
MaxRequestNodes == 2

None == "None"

NodeNames == <<"SN0", "SN1", "SN2", "SN3", "SN4", "SN5">>

(* Position of a node id in Python's string order ("SN0" < "SN1" < ...). *)
Rank(id) == CHOOSE i \in 1..Len(NodeNames) : NodeNames[i] = id

Ids(n) == {NodeNames[i] : i \in 1..n}

Bands == {"6GH", "6GL"}

(* BandwidthOrder from the narrowest *)
BandwidthOrder_narrowest_first == <<"20M", "40M", "80M", "160M">>

BandwidthOrder == <<"160M", "80M", "40M", "20M">>

(* int(bandwidth[:-1]) *)
BandwidthMHz(bandwidth) ==
    CASE bandwidth = "160M" -> 160
      [] bandwidth = "80M" -> 80
      [] bandwidth = "40M" -> 40
      [] bandwidth = "20M" -> 20

DefaultConfig ==
    [MAX_DEGREE |-> 3, RSSI_THRESHOLD |-> -72, MAX_HOP |-> 5,
     THROUGHPUT_WEIGHT_x2 |-> 2, LOAD_WEIGHT_x2 |-> 1, HOP_WEIGHT_x2 |-> -160,
     RSSI_CONFLICT_THRESHOLD |-> -85]

(* The configurations of a run: the defaults, and the defaults with a      *)
(* fan-out cap of 1 or a hop cap of 1.                                      *)
Configs ==
    {DefaultConfig,
     [DefaultConfig EXCEPT !.MAX_DEGREE = 1],
     [DefaultConfig EXCEPT !.MAX_HOP = 1]}

------------------------------------------------------------------------------
(* Input data *)

EmptyLists == [bw \in {"160M", "80M", "40M", "20M"} |-> <<>>]

(* NodeInfo records the inputs are drawn from. *)
KindA ==
    [load |-> 2,
     channels |-> [b \in Bands |->
        IF b = "6GH"
        THEN [EmptyLists EXCEPT !["160M"] = <<101>>, !["80M"] = <<101, 105>>]
        ELSE [EmptyLists EXCEPT !["160M"] = <<1>>, !["80M"] = <<1, 5>>]],
     max_eirp |-> [b \in Bands |->
        IF b = "6GH"
        THEN [EmptyLists EXCEPT !["160M"] = <<30>>, !["80M"] = <<27, 24>>]
        ELSE [EmptyLists EXCEPT !["160M"] = <<20>>, !["80M"] = <<17, 14>>]]]

KindB ==
    [load |-> 6,
     channels |-> [b \in Bands |->
        IF b = "6GH"
        THEN [EmptyLists EXCEPT !["80M"] = <<101, 105>>, !["20M"] = <<100>>]
        ELSE [EmptyLists EXCEPT !["160M"] = <<100>>, !["40M"] = <<5, 1>>]],
     max_eirp |-> [b \in Bands |->
        IF b = "6GH"
        THEN [EmptyLists EXCEPT !["80M"] = <<26, 23>>, !["20M"] = <<12>>]
        ELSE [EmptyLists EXCEPT !["160M"] = <<21>>, !["40M"] = <<16, 15>>]]]

KindC ==
    [load |-> 2,
     channels |-> [b \in Bands |->
        IF b = "6GH"
        THEN [EmptyLists EXCEPT !["80M"] = <<101>>]
        ELSE EmptyLists],
     max_eirp |-> [b \in Bands |->
        IF b = "6GH"
        THEN [EmptyLists EXCEPT !["80M"] = <<29>>]
        ELSE EmptyLists]]

NodeKinds == {KindA, KindB, KindC}

(* EdgeInfo records the inputs are drawn from. *)
Strong == [rssi_6gh |-> <<-60, -62>>, rssi_6gl |-> <<-55, -57>>]

Fair == [rssi_6gh |-> <<-75, -76>>, rssi_6gl |-> <<-72, -73>>]

Near == [rssi_6gh |-> <<-88, -90>>, rssi_6gl |-> <<-85, -86>>]

Weak == [rssi_6gh |-> <<-90, -90>>, rssi_6gl |-> <<-90, -90>>]

(* What the edge map holds for a pair a, b (a before b): under key (a, b)  *)
(* and under key (b, a); <<>> is no entry.                                  *)
LinkShapes ==
    {[fwd |-> <<>>, rev |-> <<>>],
     [fwd |-> <<Strong>>, rev |-> <<>>],
     [fwd |-> <<>>, rev |-> <<Strong>>],
     [fwd |-> <<Fair>>, rev |-> <<>>],
     [fwd |-> <<Near>>, rev |-> <<>>],
     [fwd |-> <<Weak>>, rev |-> <<Strong>>]}

(* What a request can hold for a pair: the same, or a weak entry alone. *)
RequestLinkShapes == LinkShapes \cup {[fwd |-> <<Weak>>, rev |-> <<>>]}

(* Edge keys of a request that name something else than a node of the     *)
(* request: "SN0_SN5" and "SN0_AP1", split at the underscore.               *)
StrayKeys == {<<"SN0", "SN5">>, <<"SN0", "AP1">>}

(* The entries a request can hold besides those between its nodes. *)
StrayEdges == {<<>>} \cup {[k \in {key} |-> Strong] : key \in StrayKeys}

Pairs(n) == {p \in Ids(n) \X Ids(n) : Rank(p[1]) < Rank(p[2])}

(* The dict of edges: ordered key (n1, n2) -> EdgeInfo. *)
EdgeMap(n, links) ==
    LET keys == {k \in Ids(n) \X Ids(n) :
                    \/ k \in Pairs(n) /\ links[k].fwd # <<>>
                    \/ <<k[2], k[1]>> \in Pairs(n) /\ links[<<k[2], k[1]>>].rev # <<>>}
    IN [k \in keys |-> IF k \in Pairs(n) THEN links[k].fwd[1]
                                         ELSE links[<<k[2], k[1]>>].rev[1]]

(* The iteration orders of the nodes dict the inputs are drawn from. *)
NodeOrders(n) ==
    {[i \in 1..n |-> NodeNames[i]], [i \in 1..n |-> NodeNames[n + 1 - i]]}

------------------------------------------------------------------------------
VARIABLES
    entry,            \* what was called: "api" (generate_topology) or "core"
    json_shape,       \* api: what nodes_json and edges_json decode to
    node_fields,      \* the field names of every node object
    nodeKeys,         \* keys of the nodes dict, in iteration order
    node_info,        \* nodes: id -> NodeInfo
    edges,            \* edges: (n1, n2) -> EdgeInfo
    config,           \* TopologyConfig
    pc,               \* position of the run
    selected,         \* _generate_tree: selected
    unselected,       \* _generate_tree: unselected
    tree,             \* the TopologyNode dict (tree, then topology)
    treeKeys,         \* keys of that dict, in insertion order
    iteration_count,  \* _generate_tree: iteration_count
    pending,          \* assign_channels: nodes still to be assigned, in order
    error,            \* the exception that ended the run, or <<>>
    result            \* api: the document returned, or <<>>

vars == <<entry, json_shape, node_fields, nodeKeys, node_info, edges, config,
          pc, selected, unselected, tree, treeKeys, iteration_count, pending,
          error, result>>

inputs == <<entry, json_shape, node_fields, nodeKeys, node_info, edges, config>>

Range(s) == {s[i] : i \in 1..Len(s)}

Max(S) == CHOOSE x \in S : \A y \in S : y <= x

NoError == <<>>

(* The details of an exception of the MeshTopologyError family that was    *)
(* constructed from a message alone: every field is None.                   *)
ErrorDetails(type) ==
    CASE type = "InvalidInputError" ->
            [field |-> None, value |-> None, requirement |-> None]
      [] type = "TopologyGenerationError" ->
            [phase |-> None, node_id |-> None, current_state |-> None]
      [] type = "ChannelAssignmentError" ->
            [node_id |-> None, band |-> None, attempted_channels |-> None,
             conflict_nodes |-> None]
      [] type = "ValidationError" ->
            [field |-> None, value |-> None, constraints |-> None,
             context |-> None]
      [] OTHER -> <<>>

Raise(type) == <<[type |-> type, details |-> ErrorDetails(type)]>>

------------------------------------------------------------------------------
(* TopologyGenerator *)

(* max(edge.rssi_6gh + edge.rssi_6gl): the best of the four samples *)
BestRssi(edge) == Max(Range(edge.rssi_6gh \o edge.rssi_6gl))

predict_throughput(rssi) == Max({0, (rssi + 100) * 10})

(* GetEdge looking under the key (parent, child) alone *)
GetEdge_forward_only(es, parent, child) ==
    IF <<parent, child>> \in DOMAIN es THEN <<es[<<parent, child>>]>>
    ELSE <<>>

(* edges.get((parent, child)) or edges.get((child, parent)), as a sequence *)
(* of zero or one EdgeInfo (an EdgeInfo is always truthy).                  *)
GetEdge(es, parent, child) ==
    IF <<parent, child>> \in DOMAIN es THEN <<es[<<parent, child>>]>>
    ELSE IF <<child, parent>> \in DOMAIN es THEN <<es[<<child, parent>>]>>
    ELSE <<>>

(* Twice the weight of the edge; the edge exists where this is used. *)
calculate_edge_weight(cfg, parent, child, nodes, es, current_tree) ==
    LET edge == GetEdge(es, parent, child)[1]
        throughput == predict_throughput(BestRssi(edge))
        total_load == nodes[parent].load + nodes[child].load
        parent_hops == IF parent \in DOMAIN current_tree
                       THEN current_tree[parent].level ELSE 0
    IN cfg.THROUGHPUT_WEIGHT_x2 * throughput
       + cfg.LOAD_WEIGHT_x2 * total_load
       + cfg.HOP_WEIGHT_x2 * parent_hops


(* check_rssi_constraint against the conflict threshold *)
check_rssi_constraint_conflict_threshold(cfg, edge) ==
    BestRssi(edge) >= cfg.RSSI_CONFLICT_THRESHOLD

check_rssi_constraint(cfg, edge) == BestRssi(edge) >= cfg.RSSI_THRESHOLD

check_frequency_constraint(parent, current_tree) == TRUE


(* check_degree_constraint with <= for < *)
check_degree_constraint_off_by_one(cfg, parent, current_tree) ==
    IF parent \notin DOMAIN current_tree THEN TRUE
    ELSE Cardinality({c \in DOMAIN current_tree :
                        current_tree[c].parent = parent}) <= cfg.MAX_DEGREE

check_degree_constraint(cfg, parent, current_tree) ==
    IF parent \notin DOMAIN current_tree THEN TRUE
    ELSE Cardinality({c \in DOMAIN current_tree :
                        current_tree[c].parent = parent}) < cfg.MAX_DEGREE


(* check_hop_constraint with <= for < *)
check_hop_constraint_off_by_one(cfg, parent, current_tree) ==
    IF parent \notin DOMAIN current_tree THEN TRUE
    ELSE current_tree[parent].level <= cfg.MAX_HOP

check_hop_constraint(cfg, parent, current_tree) ==
    IF parent \notin DOMAIN current_tree THEN TRUE
    ELSE current_tree[parent].level < cfg.MAX_HOP

check_constraints(cfg, parent, child, es, current_tree) ==
    LET edge == GetEdge(es, parent, child)
    IN /\ edge # <<>>
       /\ check_rssi_constraint(cfg, edge[1])
       /\ check_frequency_constraint(parent, current_tree)
       /\ check_degree_constraint(cfg, parent, current_tree)
       /\ check_hop_constraint(cfg, parent, current_tree)

(* HeapLess on the weights instead of their opposites *)
HeapLess_least_weight(a, b) ==
    \/ a[1] > b[1]
    \/ a[1] = b[1] /\ Rank(a[2]) < Rank(b[2])
    \/ a[1] = b[1] /\ a[2] = b[2] /\ Rank(a[3]) < Rank(b[3])

(* Python's order of the heap entries (-weight, parent, child). *)
HeapLess(a, b) ==
    \/ a[1] < b[1]
    \/ a[1] = b[1] /\ Rank(a[2]) < Rank(b[2])
    \/ a[1] = b[1] /\ a[2] = b[2] /\ Rank(a[3]) < Rank(b[3])

(* ValidEdges that takes the children among all the nodes *)
ValidEdges_any_child(cfg, sel, unsel, nodes, es, current_tree) ==
    {<<0 - calculate_edge_weight(cfg, p, c, nodes, es, current_tree), p, c>> :
        <<p, c>> \in {pr \in sel \X (sel \cup unsel) :
            /\ pr[1] # pr[2]
            /\ (<<pr[1], pr[2]>> \in DOMAIN es \/ <<pr[2], pr[1]>> \in DOMAIN es)
            /\ check_constraints(cfg, pr[1], pr[2], es, current_tree)}}

(* The entries pushed on the heap: one per admissible (parent, child). *)
ValidEdges(cfg, sel, unsel, nodes, es, current_tree) ==
    {<<0 - calculate_edge_weight(cfg, p, c, nodes, es, current_tree), p, c>> :
        <<p, c>> \in {pr \in sel \X unsel :
            /\ (<<pr[1], pr[2]>> \in DOMAIN es \/ <<pr[2], pr[1]>> \in DOMAIN es)
            /\ check_constraints(cfg, pr[1], pr[2], es, current_tree)}}

(* heappop: the least entry.  The result is <<>> (None) or one triple      *)
(* (parent, child, weight).                                                 *)
find_best_edge(cfg, sel, unsel, nodes, es, current_tree) ==
    LET valid_edges == ValidEdges(cfg, sel, unsel, nodes, es, current_tree)
    IN IF valid_edges = {} THEN <<>>
       ELSE LET top == CHOOSE e \in valid_edges :
                          \A f \in valid_edges : f = e \/ HeapLess(e, f)
            IN <<top[2], top[3], 0 - top[1]>>

TopologyNode(parent, backhaul_band, level) ==
    [parent |-> parent, backhaul_band |-> backhaul_band, level |-> level,
     channel |-> <<>>, bandwidth |-> <<>>, max_eirp |-> <<>>]


(* FirstKey taking the least id for the first key *)
FirstKey_sorted(keys) ==
    CHOOSE id \in Range(keys) : \A other \in Range(keys) : Rank(id) <= Rank(other)

(* next(iter(nodes)): the first key of the dict *)
FirstKey(keys) == keys[1]

(* _generate_tree up to the loop: the empty check, the root, the sets. *)
StartTree ==
    /\ pc = "generate"
    /\ IF nodeKeys = <<>>
       THEN /\ error' = Raise("TopologyGenerationError")
            /\ pc' = "raised"
            /\ UNCHANGED <<selected, unselected, tree, treeKeys, iteration_count>>
       ELSE LET root_node == FirstKey(nodeKeys)
            IN /\ selected' = {root_node}
               /\ unselected' = Range(nodeKeys) \ {root_node}
               /\ tree' = [id \in {root_node} |-> TopologyNode(None, None, 0)]
               /\ treeKeys' = <<root_node>>
               /\ iteration_count' = 0
               /\ pc' = "tree"
               /\ UNCHANGED error
    /\ UNCHANGED <<inputs, pending, result>>

(* max_iterations of half the number of nodes *)
max_iterations_halved == Len(nodeKeys) \div 2

max_iterations == Len(nodeKeys) * 2


(* NewChild with the level of the parent for the level of the child *)
NewChild_level_of_parent(parent, parent_level) ==
    LET backhaul_band == IF parent_level % 2 = 0 THEN "H" ELSE "L"
    IN TopologyNode(parent, backhaul_band, parent_level)

(* NewChild with the band taken from the parity of the child's level *)
NewChild_band_of_child(parent, parent_level) ==
    LET backhaul_band == IF (parent_level + 1) % 2 = 0 THEN "H" ELSE "L"
    IN TopologyNode(parent, backhaul_band, parent_level + 1)

(* The TopologyNode of a node attached under a parent of the given level. *)
NewChild(parent, parent_level) ==
    LET backhaul_band == IF parent_level % 2 = 0 THEN "H" ELSE "L"
    IN TopologyNode(parent, backhaul_band, parent_level + 1)

(* One pass of the loop of _generate_tree that attaches a node. *)
Attach ==
    /\ pc = "tree"
    /\ unselected # {}
    /\ iteration_count < max_iterations
    /\ LET best_edge == find_best_edge(config, selected, unselected, node_info,
                                       edges, tree)
       IN /\ best_edge # <<>>
          /\ LET parent == best_edge[1]
                 child == best_edge[2]
             IN /\ tree' = [id \in DOMAIN tree \cup {child} |->
                              IF id = child
                              THEN NewChild(parent, tree[parent].level)
                              ELSE tree[id]]
                /\ treeKeys' = Append(treeKeys, child)
                /\ selected' = selected \cup {child}
                /\ unselected' = unselected \ {child}
                /\ iteration_count' = iteration_count + 1
    /\ UNCHANGED <<inputs, pc, pending, error, result>>

(* The loop of _generate_tree ends: nothing left, no edge found, or the    *)
(* iteration cap; then the cap check and the return.                        *)
FinishTree ==
    /\ pc = "tree"
    /\ \/ unselected = {}
       \/ iteration_count >= max_iterations
       \/ find_best_edge(config, selected, unselected, node_info, edges, tree) = <<>>
    /\ IF iteration_count >= max_iterations
       THEN /\ error' = Raise("TopologyGenerationError")
            /\ pc' = "raised"
       ELSE /\ pc' = "tree_returned"
            /\ UNCHANGED error
    /\ UNCHANGED <<inputs, selected, unselected, tree, treeKeys, iteration_count,
                   pending, result>>

(* The planning run goes on: its driver feeds the tree skeleton to the     *)
(* channel assigner together with the nodes and the edges.                  *)
FeedAssigner ==
    /\ pc = "tree_returned"
    /\ pc' = "channels"
    /\ UNCHANGED <<inputs, selected, unselected, tree, treeKeys, iteration_count,
                   pending, error, result>>

------------------------------------------------------------------------------
(* ChannelAssigner *)

Min(S) == CHOOSE x \in S : \A y \in S : x <= y

(* level -> the ids at that level, in the order of the topology dict *)
get_level_nodes(topology, keys) ==
    [lv \in {topology[id].level : id \in Range(keys)} |->
        SelectSeq(keys, LAMBDA id : topology[id].level = lv)]

(* sort_nodes_by_load leaving the list as it is *)
sort_nodes_by_load_unsorted(ids, nodes) == ids

(* sorted(nodes, key=load, reverse=True): stable, highest load first *)
RECURSIVE sort_nodes_by_load(_, _)
sort_nodes_by_load(ids, nodes) ==
    IF ids = <<>> THEN <<>>
    ELSE LET top == Max({nodes[ids[i]].load : i \in 1..Len(ids)})
             i == CHOOSE k \in 1..Len(ids) :
                     /\ nodes[ids[k]].load = top
                     /\ \A j \in 1..(k - 1) : nodes[ids[j]].load # top
         IN <<ids[i]>> \o sort_nodes_by_load(
                SubSeq(ids, 1, i - 1) \o SubSeq(ids, i + 1, Len(ids)), nodes)

RECURSIVE LevelsInOrder(_, _, _)
LevelsInOrder(levels, level_nodes, nodes) ==
    IF levels = {} THEN <<>>
    ELSE LET level == Min(levels)
         IN sort_nodes_by_load(level_nodes[level], nodes)
            \o LevelsInOrder(levels \ {level}, level_nodes, nodes)

(* The nodes the loops of assign_channels visit, in order: the levels      *)
(* sorted(level_nodes.keys())[1:], each sorted by load.                     *)
AssignmentOrder(topology, keys, nodes) ==
    LET level_nodes == get_level_nodes(topology, keys)
        levels == DOMAIN level_nodes
    IN LevelsInOrder(levels \ {Min(levels)}, level_nodes, nodes)


(* get_conflict_nodes looking only at the keys that start with the node *)
get_conflict_nodes_one_way(cfg, node_id, es) ==
    {k[2] : k \in {e \in DOMAIN es :
                     /\ node_id = e[1]
                     /\ BestRssi(es[e]) >= cfg.RSSI_CONFLICT_THRESHOLD}}

get_conflict_nodes(cfg, node_id, es) ==
    {IF node_id = k[1] THEN k[2] ELSE k[1] :
        k \in {e \in DOMAIN es :
                 /\ node_id \in {e[1], e[2]}
                 /\ BestRssi(es[e]) >= cfg.RSSI_CONFLICT_THRESHOLD}}

(* UsedChannels of the conflicting nodes that are no parent *)
UsedChannels_not_of_parents(conflict_nodes, topology) ==
    UNION {Range(topology[c].channel) :
             c \in {n \in conflict_nodes \cap DOMAIN topology :
                       \A m \in DOMAIN topology : topology[m].parent # n}}

UsedChannels(conflict_nodes, topology) ==
    UNION {Range(topology[c].channel) : c \in conflict_nodes \cap DOMAIN topology}

(* set(device channels) - used channels; the list made of it has the       *)
(* iteration order of that set.                                             *)
get_available_channels(node_id, band, bandwidth, nodes, conflict_nodes, topology) ==
    Range(nodes[node_id].channels[band][bandwidth])
        \ UsedChannels(conflict_nodes, topology)


(* IndexOf answering the first position whatever the channel *)
IndexOf_first(list, x) == 1

(* list.index: the first position of the channel in the declared list *)
IndexOf(list, x) == Min({i \in 1..Len(list) : list[i] = x})

(* WithRadio that also sets the band of the node *)
WithRadio_and_band(node, channel, bw, eirp) ==
    [node EXCEPT !.channel = Append(@, channel),
                 !.bandwidth = Append(@, bw),
                 !.max_eirp = Append(@, eirp),
                 !.backhaul_band = "H"]

WithRadio(node, channel, bw, eirp) ==
    [node EXCEPT !.channel = Append(@, channel),
                 !.bandwidth = Append(@, bw),
                 !.max_eirp = Append(@, eirp)]

(* AssignRootBand falling back to the 80M list *)
AssignRootBand_with_fallback(node, info, band) ==
    LET list == info.channels[band]["160M"] \o info.channels[band]["80M"]
        eirp == info.max_eirp[band]["160M"] \o info.max_eirp[band]["80M"]
    IN IF list # <<>>
       THEN WithRadio(node, list[1], 160, eirp[1])
       ELSE node

AssignRootBand(node, info, band) ==
    LET list == info.channels[band]["160M"]
    IN IF list # <<>>
       THEN WithRadio(node, list[1], 160, info.max_eirp[band]["160M"][1])
       ELSE node

assign_root_channels(node, info) ==
    AssignRootBand(AssignRootBand(node, info, "6GH"), info, "6GL")

(* assign_channels up to its loops: the root and its channels, and the     *)
(* grouping by level.                                                       *)
AssignRoot ==
    /\ pc = "channels"
    /\ IF tree = <<>> \/ \A id \in DOMAIN tree : tree[id].parent # None
       THEN /\ error' = Raise("ChannelAssignmentError")
            /\ pc' = "raised"
            /\ UNCHANGED <<tree, pending>>
       ELSE LET root_id ==
                    treeKeys[Min({i \in 1..Len(treeKeys) :
                                    tree[treeKeys[i]].parent = None})]
            IN /\ tree' = [tree EXCEPT ![root_id] =
                              assign_root_channels(@, node_info[root_id])]
               /\ pending' = AssignmentOrder(tree, treeKeys, node_info)
               /\ pc' = "assign"
               /\ UNCHANGED error
    /\ UNCHANGED <<inputs, selected, unselected, treeKeys, iteration_count, result>>

BandOf(backhaul_band) == IF backhaul_band = "H" THEN "6GH" ELSE "6GL"

(* The surviving channels of the node at the k-th bandwidth of the order. *)
Available(node_id, k) ==
    get_available_channels(node_id, BandOf(tree[node_id].backhaul_band),
                           BandwidthOrder[k], node_info,
                           get_conflict_nodes(config, node_id, edges), tree)

Assignable(node_id) ==
    /\ tree[node_id].parent # None
    /\ tree[node_id].backhaul_band \in {"H", "L"}
    /\ \E k \in 1..Len(BandwidthOrder) : Available(node_id, k) # {}

(* available_channels[0], where the list was made from a set: the values   *)
(* it can have, the iteration order of a set being the interpreter's.       *)
FirstOfSet(S) == S

(* One pass of the inner loop of assign_channels in which                  *)
(* _try_assign_channel assigns a channel.                                   *)
AssignNode ==
    /\ pc = "assign"
    /\ pending # <<>>
    /\ LET node_id == Head(pending)
           band == BandOf(tree[node_id].backhaul_band)
       IN /\ Assignable(node_id)
          /\ LET k == Min({j \in 1..Len(BandwidthOrder) : Available(node_id, j) # {}})
                 bandwidth == BandwidthOrder[k]
                 declared == node_info[node_id].channels[band][bandwidth]
             IN \E channel \in FirstOfSet(Available(node_id, k)) :
                   tree' = [tree EXCEPT ![node_id] =
                       WithRadio(@, channel, BandwidthMHz(bandwidth),
                           node_info[node_id].max_eirp[band][bandwidth]
                               [IndexOf(declared, channel)])]
    /\ pending' = Tail(pending)
    /\ UNCHANGED <<inputs, pc, selected, unselected, treeKeys, iteration_count,
                   error, result>>

(* One pass of the inner loop in which no channel is assigned: the node    *)
(* has no parent or no valid band, or _try_assign_channel returns False    *)
(* and the call of _assign_minimum_bandwidth, a method the class does not  *)
(* define, raises AttributeError; the handler of the pass turns any        *)
(* exception into a ChannelAssignmentError made from a message alone.       *)
AssignFails ==
    /\ pc = "assign"
    /\ pending # <<>>
    /\ ~Assignable(Head(pending))
    /\ error' = Raise("ChannelAssignmentError")
    /\ pc' = "raised"
    /\ UNCHANGED <<inputs, selected, unselected, tree, treeKeys, iteration_count,
                   pending, result>>

(* The loops of assign_channels are over: return topology. *)
FinishAssign ==
    /\ pc = "assign"
    /\ pending = <<>>
    /\ pc' = "done"
    /\ UNCHANGED <<inputs, selected, unselected, tree, treeKeys, iteration_count,
                   pending, error, result>>

------------------------------------------------------------------------------
(* api.generate_topology *)

NodeInfoFields == {"gps", "load", "channels", "max_eirp"}

(* The field names of a node object the requests are drawn from. *)
FieldSets == {{"gps", "load", "channels", "maxEirp"}, NodeInfoFields}

AllOf(list, P(_)) == \A i \in 1..Len(list) : P(list[i])

(* api.validate_node_data on a node object with the given field names;     *)
(* TRUE when it raises nothing.  gps is not modelled.                       *)
validate_node_data(fields, info) ==
    /\ {"gps", "load", "channels", "maxEirp"} \subseteq fields
    /\ info.load >= 0
    /\ \A band \in DOMAIN info.channels :
          /\ band \in {"6GH", "6GL"}
          /\ \A bandwidth \in DOMAIN info.channels[band] :
                /\ bandwidth \in {"160M", "80M", "40M", "20M"}
                /\ IF band = "6GH"
                   THEN AllOf(info.channels[band][bandwidth],
                              LAMBDA ch : 100 <= ch /\ ch <= 200)
                   ELSE AllOf(info.channels[band][bandwidth],
                              LAMBDA ch : 1 <= ch /\ ch <= 100)
    /\ \A band \in DOMAIN info.max_eirp :
          /\ band \in {"6GH", "6GL"}
          /\ \A bandwidth \in DOMAIN info.max_eirp[band] :
                /\ bandwidth \in {"160M", "80M", "40M", "20M"}
                /\ AllOf(info.max_eirp[band][bandwidth],
                         LAMBDA e : 0 <= e /\ e <= 36)
                /\ band \in DOMAIN info.channels
                /\ bandwidth \in DOMAIN info.channels[band]
                /\ Len(info.max_eirp[band][bandwidth])
                     = Len(info.channels[band][bandwidth])

Abs(x) == IF x < 0 THEN 0 - x ELSE x

(* str.startswith('SN') on the names of the model *)
StartsWithSN(name) == name \in Range(NodeNames)

(* api.validate_edge_data on the edge under a key that splits in two at    *)
(* the underscore; TRUE when it raises nothing.                             *)
validate_edge_data(edge, edge_key) ==
    /\ StartsWithSN(edge_key[1]) /\ StartsWithSN(edge_key[2])
    /\ \A rssi_values \in {edge.rssi_6gh, edge.rssi_6gl} :
          /\ Len(rssi_values) = 2
          /\ AllOf(rssi_values, LAMBDA rssi : -100 <= rssi /\ rssi <= 0)
          /\ Abs(rssi_values[1] - rssi_values[2]) <= 20
    /\ \A i \in 1..2 :
          /\ edge.rssi_6gh[i] <= edge.rssi_6gl[i]
          /\ Abs(edge.rssi_6gh[i] - edge.rssi_6gl[i]) <= 15
    /\ ~AllOf(edge.rssi_6gh \o edge.rssi_6gl, LAMBDA rssi : rssi <= -85)

(* The NodeInfo constructor called with the fields of the node object as  *)
(* keywords: they must be the fields of the dataclass.                     *)
ConvertsToNodeInfo(fields) == fields = NodeInfoFields

PassesValidation ==
    /\ json_shape = "object"
    /\ \A id \in DOMAIN node_info : validate_node_data(node_fields, node_info[id])
    /\ \A k \in DOMAIN edges : validate_edge_data(edges[k], k)

(* generate_topology up to the call of the generator: decoding, the        *)
(* validation of the nodes, then of the edges, and the conversions.         *)
ParseInput ==
    /\ pc = "api"
    /\ IF json_shape = "malformed"
       THEN error' = Raise("InvalidInputError")
       ELSE IF json_shape = "scalar"
       THEN error' = Raise("TypeError")
       ELSE IF ~PassesValidation
       THEN error' = Raise("ValidationError")
       ELSE IF DOMAIN node_info # {} /\ ~ConvertsToNodeInfo(node_fields)
       THEN error' = Raise("InvalidInputError")
       ELSE UNCHANGED error
    /\ pc' = IF error' = NoError THEN "parsed" ELSE "raised"
    /\ UNCHANGED <<inputs, selected, unselected, tree, treeKeys, iteration_count,
                   pending, result>>

(* generate_topology creates the generator and calls its generate_topology, *)
(* a method TopologyGenerator does not define: AttributeError.              *)
CallGenerator ==
    /\ pc = "parsed"
    /\ error' = Raise("AttributeError")
    /\ pc' = "raised"
    /\ UNCHANGED <<inputs, selected, unselected, tree, treeKeys, iteration_count,
                   pending, result>>

(* MeshTopologyErrors without ValidationError *)
MeshTopologyErrors_without_validation ==
    {"InvalidInputError", "TopologyGenerationError", "ChannelAssignmentError"}

MeshTopologyErrors ==
    {"InvalidInputError", "TopologyGenerationError", "ChannelAssignmentError",
     "ValidationError"}

(* The result dict of generate_topology. *)
ResultData(topology) ==
    [id \in DOMAIN topology |->
        [parent |-> topology[id].parent,
         backhaulBand |-> topology[id].backhaul_band,
         level |-> topology[id].level,
         channel |-> topology[id].channel,
         bandwidth |-> topology[id].bandwidth,
         maxEirp |-> topology[id].max_eirp]]

(* generate_topology after the generator returned or something raised:     *)
(* the document it returns.                                                 *)
Render ==
    /\ entry = "api"
    /\ pc \in {"done", "raised"}
    /\ result' =
          IF error = NoError /\ tree = <<>>
          THEN <<[status |-> "error", error_type |-> "TopologyGenerationError"]>>
          ELSE IF error = NoError
          THEN <<[status |-> "success", data |-> ResultData(tree)]>>
          ELSE IF error[1].type \in MeshTopologyErrors
          THEN <<[status |-> "error", error_type |-> error[1].type]>>
          ELSE <<[status |-> "error", error_type |-> "UnexpectedError"]>>
    /\ pc' = "returned"
    /\ UNCHANGED <<inputs, selected, unselected, tree, treeKeys, iteration_count,
                   pending, error>>

------------------------------------------------------------------------------
(* A planning run on typed data: _generate_tree, then assign_channels. *)
InitCore ==
    /\ entry = "core"
    /\ json_shape = "object"
    /\ node_fields = NodeInfoFields
    /\ \E n \in 0..MaxNodes :
          /\ nodeKeys \in NodeOrders(n)
          /\ node_info \in [Ids(n) -> NodeKinds]
          /\ \E links \in [Pairs(n) -> LinkShapes] : edges = EdgeMap(n, links)
    /\ config \in Configs
    /\ pc = "generate"

(* A call of generate_topology without config_json. *)
InitApi ==
    /\ entry = "api"
    /\ json_shape \in {"object", "malformed", "scalar"}
    /\ node_fields \in FieldSets
    /\ IF json_shape = "object"
       THEN \E n \in 0..MaxRequestNodes :
               /\ nodeKeys = [i \in 1..n |-> NodeNames[i]]
               /\ node_info \in [Ids(n) -> NodeKinds]
               /\ \E links \in [Pairs(n) -> RequestLinkShapes], stray \in StrayEdges :
                     edges = EdgeMap(n, links) @@ stray
       ELSE /\ nodeKeys = <<>>
            /\ node_info = <<>>
            /\ edges = <<>>
    /\ config = DefaultConfig
    /\ pc = "api"

Init ==
    /\ InitCore \/ InitApi
    /\ selected = {}
    /\ unselected = {}
    /\ tree = <<>>
    /\ treeKeys = <<>>
    /\ iteration_count = 0
    /\ pending = <<>>
    /\ error = NoError
    /\ result = <<>>

Next ==
    \/ ParseInput
    \/ CallGenerator
    \/ StartTree
    \/ Attach
    \/ FinishTree
    \/ FeedAssigner
    \/ AssignRoot
    \/ AssignNode
    \/ AssignFails
    \/ FinishAssign
    \/ Render

Spec == Init /\ [][Next]_vars

(* What the edge map of a call of _generate_tree alone holds for a pair. *)
BuilderLinkShapes ==
    {[fwd |-> <<>>, rev |-> <<>>],
     [fwd |-> <<Strong>>, rev |-> <<>>],
     [fwd |-> <<>>, rev |-> <<Strong>>],
     [fwd |-> <<Near>>, rev |-> <<>>]}

(* A call of _generate_tree alone on typed data. *)
InitBuilder ==
    /\ entry = "core"
    /\ json_shape = "object"
    /\ node_fields = NodeInfoFields
    /\ \E n \in 0..MaxNodes :
          /\ nodeKeys \in NodeOrders(n)
          /\ node_info \in [Ids(n) -> {KindA, KindB}]
          /\ \E links \in [Pairs(n) -> BuilderLinkShapes] : edges = EdgeMap(n, links)
    /\ config \in Configs
    /\ pc = "generate"
    /\ selected = {}
    /\ unselected = {}
    /\ tree = <<>>
    /\ treeKeys = <<>>
    /\ iteration_count = 0
    /\ pending = <<>>
    /\ error = NoError
    /\ result = <<>>

NextBuilder ==
    \/ StartTree
    \/ Attach
    \/ FinishTree

(* _generate_tree runs to its end: its passes are taken one after the      *)
(* other by the thread that made the call.                                  *)
BuilderSpec == InitBuilder /\ [][NextBuilder]_vars /\ WF_vars(NextBuilder)

------------------------------------------------------------------------------
(* Properties *)

ChildrenOf(p) == {c \in DOMAIN tree : tree[c].parent = p}

Roots == {id \in DOMAIN tree : tree[id].parent = None}

Unattached == Range(nodeKeys) \ DOMAIN tree

(* The run produced a plan. *)
Successful == pc = "done" /\ error = NoError

(* _generate_tree has returned its tree. *)
TreeReturned == pc \in {"tree_returned", "channels", "assign", "done"}

(* An input edge joins m and n, in either orientation, with a best RSSI of  *)
(* at least the threshold.                                                  *)
Joined(m, n, threshold) ==
    \E k \in DOMAIN edges :
        /\ k \in {<<m, n>>, <<n, m>>}
        /\ BestRssi(edges[k]) >= threshold

DeclaredOn(n, band) ==
    UNION {Range(node_info[n].channels[band][bw]) : bw \in Range(BandwidthOrder)}

BackhaulBandOf(n) == IF tree[n].backhaul_band = "H" THEN "6GH" ELSE "6GL"

(* C1: in a successful plan, two planned nodes joined by an edge whose     *)
(* best RSSI is at least RSSI_CONFLICT_THRESHOLD have no channel number in *)
(* common, the root included and whatever the bands.                        *)
C1_NoSharedChannel ==
    Successful =>
        \A m, n \in DOMAIN tree :
            (m # n /\ Joined(m, n, config.RSSI_CONFLICT_THRESHOLD)) =>
                Range(tree[m].channel) \cap Range(tree[n].channel) = {}

(* A successful plan with two conflicting non-root nodes that both carry a *)
(* channel, one of them a channel the other declares on its band, and with *)
(* a non-root node that conflicts with a root that carries a channel.       *)
C1_Witness ==
    /\ Successful
    /\ \E m, n \in DOMAIN tree :
          /\ m # n
          /\ tree[m].parent # None
          /\ tree[n].parent # None
          /\ Joined(m, n, config.RSSI_CONFLICT_THRESHOLD)
          /\ tree[n].channel # <<>>
          /\ Range(tree[m].channel) \cap DeclaredOn(n, BackhaulBandOf(n)) # {}
    /\ \E r \in Roots, n \in DOMAIN tree :
          /\ n # r
          /\ Joined(r, n, config.RSSI_CONFLICT_THRESHOLD)
          /\ Range(tree[r].channel) \cap DeclaredOn(n, BackhaulBandOf(n)) # {}

(* The neighbours the root can take in the tree of the root alone. *)
AdmissibleNeighbours ==
    {c \in Range(nodeKeys) \ {nodeKeys[1]} :
        /\ GetEdge(edges, nodeKeys[1], c) # <<>>
        /\ BestRssi(GetEdge(edges, nodeKeys[1], c)[1]) >= config.RSSI_THRESHOLD
        /\ 0 < config.MAX_DEGREE
        /\ 0 < config.MAX_HOP}

(* The root has more admissible neighbours than MAX_DEGREE, and these have *)
(* no edge but the one with the root.                                       *)
StarInput ==
    /\ nodeKeys # <<>>
    /\ Cardinality(AdmissibleNeighbours) > config.MAX_DEGREE
    /\ \A c \in AdmissibleNeighbours : \A k \in DOMAIN edges :
          c \in {k[1], k[2]} => nodeKeys[1] \in {k[1], k[2]}

(* C2: at every step and in the returned tree no node has more than        *)
(* MAX_DEGREE children; on a star input exactly MAX_DEGREE of the root's   *)
(* admissible neighbours become its children and the others stay           *)
(* unattached.                                                              *)
C2_DegreeBound ==
    /\ \A p \in DOMAIN tree : Cardinality(ChildrenOf(p)) <= config.MAX_DEGREE
    /\ (TreeReturned /\ StarInput) =>
          /\ Cardinality(ChildrenOf(nodeKeys[1])) = config.MAX_DEGREE
          /\ ChildrenOf(nodeKeys[1]) \subseteq AdmissibleNeighbours
          /\ (AdmissibleNeighbours \ ChildrenOf(nodeKeys[1])) \cap DOMAIN tree = {}

(* The tree returned for a star input. *)
C2_Witness == TreeReturned /\ StarInput

(* C3: at every step and in the returned tree every level is between 0 and *)
(* MAX_HOP.                                                                 *)
C3_LevelBound ==
    \A id \in DOMAIN tree :
        0 <= tree[id].level /\ tree[id].level <= config.MAX_HOP

(* A returned tree with a node at level MAX_HOP that has room for a child  *)
(* and a strong enough edge to an unattached node.                          *)
C3_Witness ==
    /\ TreeReturned
    /\ \E p \in DOMAIN tree, c \in Unattached :
          /\ tree[p].level = config.MAX_HOP
          /\ Cardinality(ChildrenOf(p)) < config.MAX_DEGREE
          /\ GetEdge(edges, p, c) # <<>>
          /\ BestRssi(GetEdge(edges, p, c)[1]) >= config.RSSI_THRESHOLD

(* The node reached from id by following k parent pointers. *)
RECURSIVE Ancestor(_, _)
Ancestor(id, k) ==
    IF k = 0 \/ id \notin DOMAIN tree THEN id
    ELSE Ancestor(tree[id].parent, k - 1)

C4_Linked ==
    \A id \in DOMAIN tree :
        /\ tree[id].parent # None =>
              /\ tree[id].parent \in DOMAIN tree
              /\ tree[id].level = tree[tree[id].parent].level + 1
        /\ Ancestor(id, tree[id].level) \in Roots

C4_Frozen ==
    \A id \in DOMAIN tree :
        /\ id \in DOMAIN tree'
        /\ tree'[id].parent = tree[id].parent
        /\ tree'[id].level = tree[id].level

(* C4: every node but the root has a parent in the map, one level above    *)
(* it, so that level parent pointers lead from a node to the root; and the *)
(* parent and the level of an attached node never change.                   *)
C4_ParentLinks == [](C4_Linked) /\ [][C4_Frozen]_vars

(* A finished plan with a node two levels below the root. *)
C4_Witness == Successful /\ \E id \in DOMAIN tree : tree[id].level = 2

(* C5: a tree has exactly one node without parent, at level 0, and it is   *)
(* the first key of the nodes map.                                          *)
C5_SingleRoot ==
    tree # <<>> =>
        /\ Cardinality(Roots) = 1
        /\ \A r \in Roots : tree[r].level = 0 /\ r = nodeKeys[1]

(* A returned tree of several nodes whose root is not the least id. *)
C5_Witness ==
    /\ TreeReturned
    /\ Cardinality(DOMAIN tree) > 1
    /\ \E id \in DOMAIN tree : Rank(id) < Rank(nodeKeys[1])

(* C6: a node with a parent has band H exactly when the level of its       *)
(* parent is even and L exactly when it is odd; the root has no band.       *)
C6_BandAlternation ==
    \A id \in DOMAIN tree :
        IF tree[id].parent = None
        THEN tree[id].backhaul_band = None
        ELSE /\ tree[id].backhaul_band = "H" <=> tree[tree[id].parent].level % 2 = 0
             /\ tree[id].backhaul_band = "L" <=> tree[tree[id].parent].level % 2 = 1

(* A tree with a node on band L under a node on band H. *)
C6_Witness ==
    \E id \in DOMAIN tree :
        /\ tree[id].backhaul_band = "L"
        /\ tree[tree[id].parent].backhaul_band = "H"

(* C7: between a node and its parent the edge map has an edge, in one      *)
(* orientation or the other, whose best RSSI is at least RSSI_THRESHOLD.    *)
C7_TreeEdgesAdmissible ==
    \A c \in DOMAIN tree :
        tree[c].parent # None => Joined(tree[c].parent, c, config.RSSI_THRESHOLD)

(* A tree with a child whose edge is stored under (child, parent) only,    *)
(* and a child whose edge has a best RSSI of exactly RSSI_THRESHOLD.        *)
C7_Witness ==
    /\ \E c \in DOMAIN tree :
          /\ tree[c].parent # None
          /\ <<tree[c].parent, c>> \notin DOMAIN edges
    /\ \E c \in DOMAIN tree :
          /\ tree[c].parent # None
          /\ <<tree[c].parent, c>> \in DOMAIN edges
          /\ BestRssi(edges[<<tree[c].parent, c>>]) = config.RSSI_THRESHOLD

BandwidthName(mhz) ==
    CHOOSE bw \in Range(BandwidthOrder) : BandwidthMHz(bw) = mhz

(* C8: in a successful plan the k-th channel of a non-root node occurs in  *)
(* the list it declares for its backhaul band and for the k-th bandwidth,  *)
(* and the k-th EIRP is the one declared at the position of that channel;  *)
(* nothing is taken from the lists of the other band.                       *)
C8_DeclaredChannel ==
    Successful =>
        \A n \in DOMAIN tree :
            tree[n].parent # None =>
                /\ Len(tree[n].bandwidth) = Len(tree[n].channel)
                /\ Len(tree[n].max_eirp) = Len(tree[n].channel)
                /\ \A k \in 1..Len(tree[n].channel) :
                      LET band == IF tree[n].backhaul_band = "H" THEN "6GH" ELSE "6GL"
                          bw == BandwidthName(tree[n].bandwidth[k])
                          declared == node_info[n].channels[band][bw]
                      IN \E i \in 1..Len(declared) :
                            /\ declared[i] = tree[n].channel[k]
                            /\ \A j \in 1..(i - 1) : declared[j] # tree[n].channel[k]
                            /\ tree[n].max_eirp[k] = node_info[n].max_eirp[band][bw][i]

(* A successful plan with a node on band L that carries a channel and a    *)
(* node whose channel is not the first of its declared list.                *)
C8_Witness ==
    /\ Successful
    /\ \E n \in DOMAIN tree :
          tree[n].backhaul_band = "L" /\ tree[n].channel # <<>>
    /\ \E n \in DOMAIN tree :
          /\ tree[n].parent # None
          /\ tree[n].channel # <<>>
          /\ node_info[n].channels[BackhaulBandOf(n)]
                [BandwidthName(tree[n].bandwidth[1])][1] # tree[n].channel[1]

(* The entries heappop can return from the entries pushed, whatever the    *)
(* order they were pushed in: the least ones.                               *)
PossibleTops ==
    LET valid_edges == ValidEdges(config, selected, unselected, node_info, edges, tree)
    IN {e \in valid_edges : \A f \in valid_edges : ~HeapLess(f, e)}

(* C9: every step of a planning run has one outcome, whatever the order    *)
(* the sets are iterated in: the tree builder has one edge to take and the *)
(* channel assigner one channel; so two runs on the same input produce the *)
(* same map.                                                                *)
C9_Deterministic ==
    /\ (pc = "tree" /\ unselected # {}) => Cardinality(PossibleTops) <= 1
    /\ (pc = "assign" /\ pending # <<>> /\ Assignable(Head(pending))) =>
          \A j \in 1..Len(BandwidthOrder) :
              (/\ Available(Head(pending), j) # {}
               /\ \A i \in 1..(j - 1) : Available(Head(pending), i) = {}) =>
                  Cardinality(FirstOfSet(Available(Head(pending), j))) = 1

(* C10: for an input that passes validation and has a node,                *)
(* generate_topology returns a document with status success that has one   *)
(* entry per attached node; for two nodes joined by an edge of best RSSI   *)
(* at least RSSI_THRESHOLD the entry of the second has the first as        *)
(* parent, level 1, band H and one channel.                                 *)
C10_PlanSucceeds ==
    (entry = "api" /\ pc = "returned" /\ PassesValidation /\ nodeKeys # <<>>) =>
        /\ result[1].status = "success"
        /\ tree # <<>>
        /\ DOMAIN result[1].data = DOMAIN tree
        /\ (/\ Len(nodeKeys) = 2
            /\ Joined(nodeKeys[1], nodeKeys[2], config.RSSI_THRESHOLD)) =>
              /\ nodeKeys[2] \in DOMAIN result[1].data
              /\ result[1].data[nodeKeys[2]].parent = nodeKeys[1]
              /\ result[1].data[nodeKeys[2]].level = 1
              /\ result[1].data[nodeKeys[2]].backhaulBand = "H"
              /\ Len(result[1].data[nodeKeys[2]].channel) = 1

(* The error kinds of the MeshTopology family. *)
ErrorKinds ==
    {"InvalidInputError", "ValidationError", "TopologyGenerationError",
     "ChannelAssignmentError"}

(* C11: generate_topology lets no exception out: a run that raised goes on *)
(* to return a document; an error of the MeshTopology family is returned   *)
(* with status error and its kind as error_type, any other exception with  *)
(* error_type UnexpectedError, and an error document has no data field.     *)
C11_ErrorsRendered ==
    /\ (entry = "api" /\ pc = "raised") => ENABLED Render
    /\ (entry = "api" /\ pc = "returned") =>
          /\ Len(result) = 1
          /\ error # NoError =>
                /\ result[1].status = "error"
                /\ "data" \notin DOMAIN result[1]
                /\ result[1].error_type =
                      IF error[1].type \in ErrorKinds THEN error[1].type
                      ELSE "UnexpectedError"

(* A request whose validation raised has returned its error document. *)
C11_Witness ==
    /\ entry = "api"
    /\ pc = "returned"
    /\ error # NoError
    /\ error[1].type = "ValidationError"
    /\ result[1].error_type = "ValidationError"

(* The request holds nodes SN0 and SN1, whose objects pass validation,     *)
(* and one edge between them, all of whose samples are -90.                 *)
WeakPairRequest ==
    /\ entry = "api"
    /\ json_shape = "object"
    /\ nodeKeys = <<"SN0", "SN1">>
    /\ \A id \in DOMAIN node_info : validate_node_data(node_fields, node_info[id])
    /\ DOMAIN edges = {<<"SN0", "SN1">>}
    /\ \A i \in 1..2 : /\ edges[<<"SN0", "SN1">>].rssi_6gh[i] = -90
                       /\ edges[<<"SN0", "SN1">>].rssi_6gl[i] = -90

(* C12: for two nodes joined only by an edge whose samples are all below   *)
(* RSSI_THRESHOLD, generate_topology returns a success document that       *)
(* holds the root alone.                                                    *)
C12_WeakEdgeLeavesRootOnly ==
    (WeakPairRequest /\ pc = "returned") =>
        /\ result[1].status = "success"
        /\ DOMAIN result[1].data = {"SN0"}

(* The channels of the declared list of n, on its backhaul band and at the *)
(* bandwidth, that no already assigned node joined to n by an edge of best *)
(* RSSI at least RSSI_CONFLICT_THRESHOLD holds.                             *)
Surviving(n, bw) ==
    {ch \in Range(node_info[n].channels[BackhaulBandOf(n)][bw]) :
        \A m \in DOMAIN tree :
            Joined(m, n, config.RSSI_CONFLICT_THRESHOLD) =>
                ch \notin Range(tree[m].channel)}

(* The step gives the first pending node a radio. *)
AssignsHead ==
    /\ pc = "assign"
    /\ pending # <<>>
    /\ tree'[Head(pending)].channel # tree[Head(pending)].channel

C13_Step ==
    AssignsHead =>
        LET n == Head(pending)
            k == Len(tree'[n].channel)
            bw == BandwidthName(tree'[n].bandwidth[k])
        IN /\ k = Len(tree[n].channel) + 1
           /\ Len(tree'[n].bandwidth) = k
           /\ tree'[n].channel[k] \in Surviving(n, bw)
           /\ \A wider \in {"160M", "80M", "40M", "20M"} :
                 BandwidthMHz(wider) > tree'[n].bandwidth[k] =>
                     Surviving(n, wider) = {}

(* C13: a non-root node gets its channel at the widest of 160M, 80M, 40M,  *)
(* 20M that has a surviving channel: every wider bandwidth has none, and   *)
(* the bandwidth recorded is that of the list the channel comes from.       *)
C13_BandwidthBackoff == [][C13_Step]_vars

(* A node that declares a 160M channel on its backhaul band was assigned   *)
(* at 80M.                                                                  *)
C13_Witness ==
    \E n \in DOMAIN tree :
        /\ tree[n].parent # None
        /\ tree[n].bandwidth = <<80>>
        /\ node_info[n].channels[BackhaulBandOf(n)]["160M"] # <<>>

C14_Step ==
    AssignsHead =>
        LET n == Head(pending)
            k == Len(tree'[n].channel)
            bw == BandwidthName(tree'[n].bandwidth[k])
            declared == node_info[n].channels[BackhaulBandOf(n)][bw]
        IN \E i \in 1..Len(declared) :
              /\ declared[i] = tree'[n].channel[k]
              /\ \A j \in 1..(i - 1) : declared[j] \notin Surviving(n, bw)

(* C14: the channel a non-root node gets is the first one of its declared  *)
(* list, in the declared order, that survives the conflict filter.          *)
C14_FirstDeclaredChannel == [][C14_Step]_vars

(* C15: when no bandwidth leaves a non-root node a surviving channel, the  *)
(* run ends with a ChannelAssignmentError that carries the node, its band, *)
(* the channels tried and the conflict set of the node.                     *)
C15_AssignmentErrorDetails ==
    (/\ pending # <<>>
     /\ tree[Head(pending)].parent # None
     /\ \A bw \in {"160M", "80M", "40M", "20M"} : Surviving(Head(pending), bw) = {}
     /\ pc # "assign") =>
        /\ pc = "raised"
        /\ error[1].type = "ChannelAssignmentError"
        /\ error[1].details.node_id = Head(pending)
        /\ error[1].details.band = BackhaulBandOf(Head(pending))
        /\ error[1].details.attempted_channels # None
        /\ error[1].details.conflict_nodes =
              {m \in Range(nodeKeys) :
                  Joined(m, Head(pending), config.RSSI_CONFLICT_THRESHOLD)}

(* The edge key names something that does not start with SN or that is not *)
(* a key of the nodes map.                                                  *)
OutsideEndpoint(k) ==
    \E i \in 1..2 : k[i] \notin Range(NodeNames) \/ k[i] \notin Range(nodeKeys)

(* C16: a request with an edge one of whose endpoints does not start with  *)
(* SN or is not a key of the nodes map ends with a ValidationError, so no  *)
(* such edge is handed to the generator.                                    *)
C16_EdgeEndpointsValidated ==
    /\ (/\ entry = "api"
        /\ json_shape = "object"
        /\ pc # "api"
        /\ \E k \in DOMAIN edges : OutsideEndpoint(k)) =>
           /\ error # NoError
           /\ error[1].type = "ValidationError"
    /\ pc = "parsed" => \A k \in DOMAIN edges : ~OutsideEndpoint(k)

(* What the root gets from a band: the first entry of the list declared    *)
(* for 160M, or nothing.                                                    *)
RootRadio(list) == IF list = <<>> THEN <<>> ELSE <<list[1]>>

(* The root has been through _assign_root_channels. *)
RootAssigned == pc \in {"assign", "done"} \/ (pc = "raised" /\ pending # <<>>)

(* C17: the root holds, for 6GH then for 6GL, the first 160M channel it    *)
(* declares on the band, with bandwidth 160 and the first 160M EIRP of the *)
(* band; a band without 160M channel is skipped, nothing narrower is used  *)
(* and the run does not fail: a run on a single node ends with a root of   *)
(* 0, 1 or 2 radios.                                                        *)
C17_RootAssignment ==
    /\ RootAssigned =>
          \A r \in Roots :
              LET info == node_info[r]
                  high == info.channels["6GH"]["160M"]
                  low == info.channels["6GL"]["160M"]
              IN /\ tree[r].channel = RootRadio(high) \o RootRadio(low)
                 /\ tree[r].bandwidth = [i \in 1..Len(tree[r].channel) |-> 160]
                 /\ tree[r].max_eirp =
                       (IF high = <<>> THEN <<>>
                        ELSE RootRadio(info.max_eirp["6GH"]["160M"]))
                       \o (IF low = <<>> THEN <<>>
                           ELSE RootRadio(info.max_eirp["6GL"]["160M"]))
    /\ (entry = "core" /\ Len(nodeKeys) = 1) => pc # "raised"

(* A run on a single node that declares no 160M channel on 6GH, but an 80M *)
(* one, ended with a root of one radio.                                     *)
C17_Witness ==
    /\ entry = "core"
    /\ Len(nodeKeys) = 1
    /\ pc = "done"
    /\ node_info[nodeKeys[1]].channels["6GH"]["160M"] = <<>>
    /\ node_info[nodeKeys[1]].channels["6GH"]["80M"] # <<>>
    /\ Len(tree[nodeKeys[1]].channel) = 1

(* The pair (p, c) can be attached in the current tree; the edge between p *)
(* and c is the one the lookup of the builder finds.                        *)
AdmissibleNow(p, c) ==
    /\ p \in DOMAIN tree
    /\ c \in Unattached
    /\ GetEdge(edges, p, c) # <<>>
    /\ BestRssi(GetEdge(edges, p, c)[1]) >= config.RSSI_THRESHOLD
    /\ Cardinality(ChildrenOf(p)) < config.MAX_DEGREE
    /\ tree[p].level < config.MAX_HOP

(* C18: when the tree builder stops with nodes still unattached it returns *)
(* the partial tree and raises nothing, and no attached p and unattached c *)
(* form a pair that could be attached.                                      *)
C18_NoAdmissiblePairRemains ==
    /\ (TreeReturned /\ Unattached # {}) =>
          \A p \in DOMAIN tree : \A c \in Unattached : ~AdmissibleNow(p, c)
    /\ (pc = "raised" /\ tree # <<>> /\ Unattached # {}) =>
          error[1].type # "TopologyGenerationError"

(* The builder returned a tree that leaves out a node which has an edge to *)
(* a node of the tree.                                                      *)
C18_Witness ==
    /\ pc = "tree_returned"
    /\ \E p \in DOMAIN tree : \E c \in Unattached : GetEdge(edges, p, c) # <<>>

(* Twice THROUGHPUT_WEIGHT * max(0, (best RSSI + 100) * 10)                *)
(* + LOAD_WEIGHT * (load[p] + load[c]) + HOP_WEIGHT * level[p].             *)
WeightNow(p, c) ==
    LET best == BestRssi(GetEdge(edges, p, c)[1])
        throughput == IF (best + 100) * 10 > 0 THEN (best + 100) * 10 ELSE 0
    IN config.THROUGHPUT_WEIGHT_x2 * throughput
       + config.LOAD_WEIGHT_x2 * (node_info[p].load + node_info[c].load)
       + config.HOP_WEIGHT_x2 * tree[p].level

C19_Step ==
    (pc = "tree" /\ DOMAIN tree' # DOMAIN tree) =>
        \E c \in DOMAIN tree' \ DOMAIN tree :
            /\ DOMAIN tree' = DOMAIN tree \cup {c}
            /\ AdmissibleNow(tree'[c].parent, c)
            /\ \A p2 \in DOMAIN tree : \A c2 \in Unattached :
                  AdmissibleNow(p2, c2) =>
                      WeightNow(p2, c2) <= WeightNow(tree'[c].parent, c)

(* C19: the pair a step of the tree builder attaches can be attached in    *)
(* the current tree and no pair that can be attached has a greater weight, *)
(* the weight being taken with the parent's level in the current tree.      *)
C19_GreatestWeight == [][C19_Step]_vars

(* The first node attached was preferred to a node that could have been    *)
(* attached to the root with a smaller weight, and a later step preferred  *)
(* a parent by its level.                                                   *)
C19_Witness ==
    /\ pc = "tree"
    /\ Len(treeKeys) = 2
    /\ \E c2 \in Unattached :
          /\ AdmissibleNow(treeKeys[1], c2)
          /\ AdmissibleNow(treeKeys[2], c2)
          /\ WeightNow(treeKeys[1], c2) < WeightNow(treeKeys[1], treeKeys[2])

(* The nodes of the tree assign_channels has dealt with. *)
Processed == DOMAIN tree \ Range(pending)

(* C20: the root is assigned before any other node, a node only after all  *)
(* nodes of lower levels, and in a level a node of strictly higher load    *)
(* before a node of strictly lower load.                                    *)
C20_AssignmentOrder ==
    /\ (pc \in {"tree_returned", "channels"}) =>
          \A n \in DOMAIN tree : tree[n].channel = <<>>
    /\ pc = "assign" =>
          /\ Roots \subseteq Processed
          /\ \A n \in Processed : \A m \in Range(pending) :
                /\ tree[m].level >= tree[n].level
                /\ tree[m].level = tree[n].level =>
                      node_info[m].load <= node_info[n].load
          /\ \A m \in Range(pending) : tree[m].channel = <<>>

(* A node of higher load was assigned before a node of its level that was  *)
(* attached earlier and is still to be assigned.                            *)
C20_Witness ==
    /\ pc = "assign"
    /\ \E n \in Processed : \E m \in Range(pending) :
          /\ tree[n].channel # <<>>
          /\ tree[m].level = tree[n].level
          /\ node_info[n].load > node_info[m].load
          /\ \E i, j \in 1..Len(treeKeys) :
                i < j /\ treeKeys[i] = m /\ treeKeys[j] = n

(* C21: in a level, of two nodes of equal load the one of the lesser id is *)
(* assigned first, whatever the order the two were attached in.             *)
C21_EqualLoadByIdOrder ==
    pc = "assign" =>
        \A n \in Processed : \A m \in Range(pending) :
            (/\ tree[n].parent # None
             /\ tree[m].level = tree[n].level
             /\ node_info[m].load = node_info[n].load) =>
                Rank(n) < Rank(m)

(* What a pass of the loop of the tree builder does to the sets: one node  *)
(* goes from the unattached to the attached ones.                           *)
C22_Step ==
    (pc = "tree" /\ iteration_count' # iteration_count) =>
        /\ iteration_count' = iteration_count + 1
        /\ \E c \in unselected :
              /\ unselected' = unselected \ {c}
              /\ selected' = selected \cup {c}
              /\ DOMAIN tree' = DOMAIN tree \cup {c}
              /\ c \notin DOMAIN tree

(* The passes made so far are the attach steps, at most |Nodes| - 1 of     *)
(* them, fewer than the cap, and the error of the cap is not raised.        *)
C22_Bound ==
    /\ pc \in {"tree", "tree_returned"} =>
          /\ iteration_count = Cardinality(DOMAIN tree) - 1
          /\ iteration_count <= Len(nodeKeys) - 1
          /\ iteration_count < 2 * Len(nodeKeys)
    /\ (pc = "raised" /\ nodeKeys # <<>> /\ error # NoError) =>
          error[1].type # "TopologyGenerationError"

(* C22: on a non-empty input the tree builder stops after at most          *)
(* |Nodes| - 1 attach steps, each of which attaches one node; the cap of   *)
(* 2 * |Nodes| passes is not reached and its error is not raised.           *)
C22_BuilderTerminates ==
    /\ [](C22_Bound)
    /\ [][C22_Step]_vars
    /\ <>(pc \notin {"generate", "tree"})

(* The builder returned after |Nodes| - 1 attach steps on three nodes. *)
C22_Witness ==
    /\ pc = "tree_returned"
    /\ Len(nodeKeys) = 3
    /\ iteration_count = 2

(* The keys of the edge map whose opposite key holds nothing. *)
OneWayKeys == {k \in DOMAIN edges : <<k[2], k[1]>> \notin DOMAIN edges}

(* The edge map with the entry of key (a, b) stored under (b, a) instead. *)
Flipped(k) ==
    [j \in (DOMAIN edges \ {k}) \cup {<<k[2], k[1]>>} |->
        IF j = <<k[2], k[1]>> THEN edges[k] ELSE edges[j]]

(* C23: with an edge stored under the opposite key the run goes the same   *)
(* way: in every state of the tree builder the edge taken is the same, and *)
(* in every state of the channel assigner the surviving channels of the    *)
(* node to assign are the same at every bandwidth; so the tree and the     *)
(* channels are the same.  The opposite key holds nothing beforehand.       *)
C23_EdgesUnordered ==
    \A k \in OneWayKeys :
        /\ pc = "tree" =>
              find_best_edge(config, selected, unselected, node_info,
                             Flipped(k), tree)
                = find_best_edge(config, selected, unselected, node_info,
                                 edges, tree)
        /\ (pc = "assign" /\ pending # <<>>) =>
              \A j \in 1..Len(BandwidthOrder) :
                  get_available_channels(
                      Head(pending), BandOf(tree[Head(pending)].backhaul_band),
                      BandwidthOrder[j], node_info,
                      get_conflict_nodes(config, Head(pending), Flipped(k)), tree)
                    = Available(Head(pending), j)

(* A plan in which a node with a channel hangs under its parent by an edge *)
(* stored under the key (child, parent) alone.                              *)
C23_Witness ==
    /\ Successful
    /\ \E c \in DOMAIN tree :
          /\ tree[c].parent # None
          /\ tree[c].channel # <<>>
          /\ <<c, tree[c].parent>> \in OneWayKeys

(* The node a step of the channel assigner assigns. *)
IsTarget(n) ==
    \/ pc = "channels" /\ n \in Roots
    \/ pc = "assign" /\ pending # <<>> /\ n = Head(pending)

C24_Step ==
    /\ node_info' = node_info
    /\ edges' = edges
    /\ pc \in {"channels", "assign"} =>
          /\ DOMAIN tree' = DOMAIN tree
          /\ \A n \in DOMAIN tree :
                /\ tree'[n].parent = tree[n].parent
                /\ tree'[n].level = tree[n].level
                /\ tree'[n].backhaul_band = tree[n].backhaul_band
                /\ tree'[n] # tree[n] => IsTarget(n)

(* C24: the tree builder returns nodes with empty channel, bandwidth and   *)
(* max_eirp lists, and a step of the channel assigner changes nothing but  *)
(* these lists of the node it assigns: the keys of the map, the parent,    *)
(* level and backhaul_band of every node, the lists of the other nodes,    *)
(* the nodes and the edges stay as they are.                                *)
C24_FrameOfAssignment ==
    /\ [](pc = "tree_returned" =>
            \A n \in DOMAIN tree :
                /\ tree[n].channel = <<>>
                /\ tree[n].bandwidth = <<>>
                /\ tree[n].max_eirp = <<>>)
    /\ [][C24_Step]_vars

(* The assigner gave channels to the root and to a node, and has a node    *)
(* still to assign.                                                         *)
C24_Witness ==
    /\ pc = "assign"
    /\ pending # <<>>
    /\ \E r \in Roots : tree[r].channel # <<>>
    /\ \E n \in Processed : tree[n].parent # None /\ tree[n].channel # <<>>

(* C25: with RSSI_THRESHOLD >= RSSI_CONFLICT_THRESHOLD every child is      *)
(* joined to its parent by an edge of best RSSI at least the conflict      *)
(* threshold; in a successful plan every child holds a channel and none    *)
(* that its parent holds, and a run whose node to assign declares, on its  *)
(* backhaul band, only channels held by conflicting nodes has failed.       *)
C25_ParentChildConflict ==
    config.RSSI_THRESHOLD >= config.RSSI_CONFLICT_THRESHOLD =>
        /\ \A c \in DOMAIN tree :
              tree[c].parent # None =>
                  Joined(tree[c].parent, c, config.RSSI_CONFLICT_THRESHOLD)
        /\ Successful =>
              \A c \in DOMAIN tree :
                  tree[c].parent # None =>
                      /\ tree[c].channel # <<>>
                      /\ Range(tree[c].channel)
                           \cap Range(tree[tree[c].parent].channel) = {}
        /\ (/\ pending # <<>>
            /\ pc # "assign"
            /\ \A ch \in DeclaredOn(Head(pending), BackhaulBandOf(Head(pending))) :
                  \E m \in DOMAIN tree :
                      /\ Joined(m, Head(pending), config.RSSI_CONFLICT_THRESHOLD)
                      /\ ch \in Range(tree[m].channel)) =>
               pc = "raised"

(* A plan in which a node of level 1 that declares the 6GH channel of the  *)
(* root at 160M was assigned at 80M.                                        *)
C25_Witness ==
    /\ Successful
    /\ \E c \in DOMAIN tree :
          /\ tree[c].level = 1
          /\ tree[c].bandwidth = <<80>>
          /\ tree[tree[c].parent].channel # <<>>
          /\ tree[tree[c].parent].channel[1]
               \in Range(node_info[c].channels["6GH"]["160M"])

====
